---- MODULE Spec2Model ----
(***************************************************************************)
(* Model of the decision graph engine of minji_archive:                    *)
(*   src/public/js/engine/GameEngine.js  (class DecisionEngine)            *)
(* The player state, the choice history and the durable record kept in     *)
(* localStorage under DECISION_KEY are the state; every public operation   *)
(* of DecisionEngine is one action.                                        *)
(*                                                                         *)
(* Representation:                                                         *)
(*  - a JS Set is a duplicate-free sequence in insertion order;            *)
(*  - a JS object is a TLA+ record; a missing property or a property whose *)
(*    value is undefined reads as Undefined (see prop);                    *)
(*  - a JSON text is [valid |-> BOOLEAN, doc |-> the document it parses    *)
(*    to]; JSON.stringify drops properties whose value is undefined;       *)
(*  - localStorage[DECISION_KEY] is <<>> (no item) or <<doc>>.             *)
(***************************************************************************)
EXTENDS Integers, Sequences, FiniteSets, TLC

VARIABLES
    playerState,   \* #playerState: trust, guard, honesty, vulnerability, activeFlags, memories, arcFlags
    history,       \* #history
    loaded,        \* TRUE once load() has indexed the catalogs (#decisions, #effects non-empty)
    storage,       \* localStorage item DECISION_KEY: <<>> or <<document>>
    now,           \* Date.now(), a logical clock that advances with every accepted choice
    ret,           \* what the last call returned or threw, and its arguments
    consumers,     \* #consumers: effect id -> array of the consumers that check it
    initialized,   \* GameEngine.#initialized
    dataset,       \* validate-decisions.mjs: the parsed decisions.json (data)
    report         \* validate-decisions.mjs: errors, warnings and the exit status

vars == <<playerState, history, loaded, storage, now, ret, consumers, initialized, dataset, report>>

\* the variables of the validator script, which the engine never touches
validatorVars == <<dataset, report>>
\* the variables of the engine, which the validator script never touches
engineVars == <<playerState, history, loaded, storage, now, ret, consumers>>
\* the variable of the GameEngine facade, which DecisionEngine never touches
gameVars == <<initialized>>

\* The clock stops here: at most MaxClock choices are applied in one behaviour
\* of Spec, and at most MaxPersistClock in one behaviour of SpecPersist.
MaxClock == 3
MaxPersistClock == 2
\* an engine instance completes at most MaxLoads calls of load()
MaxLoads == 2

Undefined == "undefined"

(***************************************************************************)
(* The authored dataset (data.decisions, data.effects of decisions.json).  *)
(***************************************************************************)
Decisions ==
    [d1 |-> [tape |-> "tape1",
             options |-> << [id |-> "optA", effects |-> <<"flag_seen", "stat_trust_+5">>],
                            [id |-> "optB", effects |-> <<"mem_first", "arc_open", "stat_charm_+5">>] >>],
     d2 |-> [tape |-> "tape2",
             options |-> << [id |-> "optDrop", effects |-> <<"stat_trust_-30">>],
                            [id |-> "optBig",  effects |-> <<"stat_trust_+150">>],
                            [id |-> "optMix",  effects |-> <<"flag_late", "e_missing", "mem_note",
                                                             "e_weird", "stat_guard_+5", "flag_seen">>] >>],
     d3 |-> [tape |-> "tape2",
             options |-> << [id |-> "optFlags", effects |-> <<"stat_flags_+5">>],
                            [id |-> "optArcs",  effects |-> <<"stat_arcs_-5">>],
                            [id |-> "optMems",  effects |-> <<"stat_mems_+5">>] >>]]

Effects ==
       ("flag_seen"       :> [type |-> "flag", description |-> "seen"])
    @@ ("flag_late"       :> [type |-> "flag"])
    @@ ("arc_open"        :> [type |-> "arc"])
    @@ ("mem_first"       :> [type |-> "memory", description |-> "first"])
    @@ ("mem_note"        :> [type |-> "memory"])
    @@ ("e_weird"         :> [type |-> "mood"])
    @@ ("stat_trust_+5"   :> [type |-> "stat", stat |-> "trust", delta |-> 5])
    @@ ("stat_trust_-30"  :> [type |-> "stat", stat |-> "trust", delta |-> -30])
    @@ ("stat_trust_+150" :> [type |-> "stat", stat |-> "trust", delta |-> 150])
    @@ ("stat_guard_+5"   :> [type |-> "stat", stat |-> "guard", delta |-> 5])
    @@ ("stat_charm_+5"   :> [type |-> "stat", stat |-> "charm", delta |-> 5])
    @@ ("stat_flags_+5"   :> [type |-> "stat", stat |-> "activeFlags", delta |-> 5])
    @@ ("stat_arcs_-5"    :> [type |-> "stat", stat |-> "arcFlags", delta |-> -5])
    @@ ("stat_mems_+5"    :> [type |-> "stat", stat |-> "memories", delta |-> 5])

EmptyMap == [k \in {} |-> k]

\* #decisions and #effects: empty Maps after construction, filled by load()
decisions == IF loaded THEN Decisions ELSE EmptyMap
effects   == IF loaded THEN Effects ELSE EmptyMap

(***************************************************************************)
(* JavaScript helpers.                                                     *)
(***************************************************************************)
\* obj[k] for a string-valued property: undefined when the property is missing
prop(obj, k) == IF k \in DOMAIN obj THEN obj[k] ELSE Undefined

\* Array.prototype.includes / Set.prototype.has
Has(seq, x) == \E i \in 1..Len(seq) : seq[i] = x

\* Set.prototype.add: inserts x unless it is already a member
SetAdd_dup(set, x) == Append(set, x)
SetAdd(set, x) == IF Has(set, x) THEN set ELSE Append(set, x)

\* new Set(array): the elements of array in first-occurrence order
RECURSIVE NewSet(_)
NewSet(arr) ==
    IF arr = <<>> THEN <<>>
    ELSE LET init == NewSet(SubSeq(arr, 1, Len(arr) - 1))
         IN  SetAdd(init, arr[Len(arr)])

\* Math.max(0, Math.min(100, x))
Clamp_none(x) == x
Clamp(x) == IF x > 100 THEN 100 ELSE IF x < 0 THEN 0 ELSE x

\* The string-valued properties of memory records and history entries; JSON.stringify
\* leaves out a property whose value is undefined.
StrKeys == {"id", "description", "decisionId", "optionId", "tape"}
JSONObj(obj) ==
    [k \in {j \in DOMAIN obj : ~(j \in StrKeys /\ obj[j] = Undefined)} |-> obj[k]]
JSONArr(arr) == [i \in 1..Len(arr) |-> JSONObj(arr[i])]

\* The state a constructor or resetState() sets up
DefaultState ==
    [trust |-> 0, guard |-> 0, honesty |-> 0, vulnerability |-> 0,
     activeFlags |-> <<>>, memories |-> <<>>, arcFlags |-> <<>>]

StatNames == {"trust", "guard", "honesty", "vulnerability"}

(***************************************************************************)
(* #applyEffect(effectId): the new player state and the value returned     *)
(* (<<>> for null, <<result>> otherwise). t is Date.now().                  *)
(***************************************************************************)
\* case 'memory': push {id, description, timestamp}
pushMemory_once(ps, effectId, effect, t) ==
    IF \E i \in 1..Len(ps.memories) : ps.memories[i].id = effectId
    THEN ps
    ELSE [ps EXCEPT !.memories =
             Append(@, [id |-> effectId, description |-> prop(effect, "description"),
                        timestamp |-> t])]
pushMemory(ps, effectId, effect, t) ==
    [ps EXCEPT !.memories =
        Append(@, [id |-> effectId, description |-> prop(effect, "description"),
                   timestamp |-> t])]

\* this.#effects.get(effectId): <<>> when the id is not in the catalog
lookupEffect_lenient(effectId) ==
    IF effectId \in DOMAIN effects THEN <<effects[effectId]>> ELSE <<[type |-> "missing"]>>
lookupEffect(effectId) ==
    IF effectId \in DOMAIN effects THEN <<effects[effectId]>> ELSE <<>>

\* What a property of #playerState holds once a number or NaN was assigned
\* where a Set or an array was: NaNSet in place of a Set, <<[number |-> n]>> and
\* NaNArray in place of the memories array.
NaNSet == <<"NaN">>
NaNArray == <<[nan |-> TRUE]>>
NumberInArray(n) == <<[number |-> n]>>

\* Math.max(0, Math.min(100, this.#playerState[stat] + delta)) for a property
\* the state has: the clamped sum on a number; on a Set the sum is the string
\* "[object Set]" followed by delta, which is not numeric, so NaN; on an array
\* it is the elements joined by "," followed by delta, numeric only when the
\* array is empty
statAfter(ps, stat, delta) ==
    IF stat \in StatNames THEN Clamp(ps[stat] + delta)
    ELSE IF stat = "memories"
         THEN IF ps.memories = <<>> THEN NumberInArray(Clamp(delta))
              ELSE IF Len(ps.memories) = 1 /\ "number" \in DOMAIN ps.memories[1]
                   THEN NumberInArray(Clamp(ps.memories[1].number + delta))
                   ELSE NaNArray
         ELSE NaNSet

applyEffect(ps, effectId, t) ==
    LET found == lookupEffect(effectId) IN
    IF found = <<>> THEN [ps |-> ps, result |-> <<>>]
    ELSE
    LET effect == found[1] IN
    CASE effect.type = "stat" ->
           LET stat  == effect.stat
               delta == effect.delta
               ps2   == IF stat \in DOMAIN ps
                        THEN [ps EXCEPT ![stat] = statAfter(ps, stat, delta)]
                        ELSE ps
           IN  [ps |-> ps2,
                result |-> <<[type |-> "stat", stat |-> stat, delta |-> delta,
                              newValue |-> IF stat \in DOMAIN ps2 THEN ps2[stat] ELSE Undefined]>>]
      [] effect.type = "flag" ->
           [ps |-> [ps EXCEPT !.activeFlags = SetAdd(@, effectId)],
            result |-> <<[type |-> "flag", flag |-> effectId]>>]
      [] effect.type = "memory" ->
           [ps |-> pushMemory(ps, effectId, effect, t),
            result |-> <<[type |-> "memory", memory |-> effectId]>>]
      [] effect.type = "arc" ->
           [ps |-> [ps EXCEPT !.arcFlags = SetAdd(@, effectId)],
            result |-> <<[type |-> "arc", arc |-> effectId]>>]
      [] OTHER ->
           [ps |-> ps,
            result |-> <<[type |-> "unknown", effectId |-> effectId]>>]

\* the loop of makeChoice over option.effects: the state after the effects and
\* appliedEffects, each {id: effectId, ...result}
RECURSIVE applyEffects(_, _, _)
applyEffects(ps, effectIds, t) ==
    IF effectIds = <<>> THEN [ps |-> ps, applied |-> <<>>]
    ELSE LET init == applyEffects(ps, SubSeq(effectIds, 1, Len(effectIds) - 1), t)
             last == applyEffect(init.ps, effectIds[Len(effectIds)], t)
         IN  [ps |-> last.ps,
              applied |-> IF last.result = <<>> THEN init.applied
                          ELSE Append(init.applied,
                                 [id |-> effectIds[Len(effectIds)]] @@ last.result[1])]

(***************************************************************************)
(* Persistence.                                                            *)
(***************************************************************************)
\* the document #saveState serialises
snapshot(ps, h) ==
    [stats |-> [trust |-> ps.trust, guard |-> ps.guard,
                honesty |-> ps.honesty, vulnerability |-> ps.vulnerability],
     flags |-> ps.activeFlags,
     memories |-> JSONArr(ps.memories),
     arcs |-> ps.arcFlags,
     history |-> JSONArr(h)]

\* #saveState: localStorage.setItem inside try/catch. writable = FALSE is a
\* setItem that throws (quota exceeded, storage disabled).
saveState_rethrow(ps, h, store, writable) ==
    [storage |-> IF writable THEN <<snapshot(ps, h)>> ELSE store, threw |-> ~writable]
saveState(ps, h, store, writable) ==
    [storage |-> IF writable THEN <<snapshot(ps, h)>> ELSE store, threw |-> FALSE]

\* #restoreState: merges the stored document, field by field, into the state
restoreState_fromDefaults(ps, h, store) ==
    IF store = <<>> THEN [ps |-> ps, history |-> h]
    ELSE
    LET state == store[1]
        ps1 == IF "stats" \in DOMAIN state
               THEN [k \in DOMAIN DefaultState \cup DOMAIN state.stats |->
                        IF k \in DOMAIN state.stats THEN state.stats[k] ELSE DefaultState[k]]
               ELSE DefaultState
        ps2 == IF "flags" \in DOMAIN state
               THEN [ps1 EXCEPT !.activeFlags = NewSet(state.flags)] ELSE ps1
        ps3 == IF "memories" \in DOMAIN state
               THEN [ps2 EXCEPT !.memories = state.memories] ELSE ps2
        ps4 == IF "arcs" \in DOMAIN state
               THEN [ps3 EXCEPT !.arcFlags = NewSet(state.arcs)] ELSE ps3
    IN  [ps |-> ps4,
         history |-> IF "history" \in DOMAIN state THEN state.history ELSE <<>>]
restoreState(ps, h, store) ==
    IF store = <<>> THEN [ps |-> ps, history |-> h]
    ELSE
    LET state == store[1]
        ps1 == IF "stats" \in DOMAIN state
               THEN [k \in DOMAIN ps \cup DOMAIN state.stats |->
                        IF k \in DOMAIN state.stats THEN state.stats[k] ELSE ps[k]]
               ELSE ps
        ps2 == IF "flags" \in DOMAIN state
               THEN [ps1 EXCEPT !.activeFlags = NewSet(state.flags)] ELSE ps1
        ps3 == IF "memories" \in DOMAIN state
               THEN [ps2 EXCEPT !.memories = state.memories] ELSE ps2
        ps4 == IF "arcs" \in DOMAIN state
               THEN [ps3 EXCEPT !.arcFlags = NewSet(state.arcs)] ELSE ps3
    IN  [ps |-> ps4,
         history |-> IF "history" \in DOMAIN state THEN state.history ELSE h]

\* getState(): the flat view of the state
getStateOf(ps, h) ==
    [trust |-> ps.trust, guard |-> ps.guard, honesty |-> ps.honesty,
     vulnerability |-> ps.vulnerability,
     flags |-> ps.activeFlags, memories |-> ps.memories,
     arcs |-> ps.arcFlags, history |-> h]

\* exportState(): JSON.stringify(this.getState(), null, 2)
exportStateOf(ps, h) ==
    LET s == getStateOf(ps, h)
    IN  [valid |-> TRUE,
         doc |-> [s EXCEPT !.memories = JSONArr(@), !.history = JSONArr(@)]]

(***************************************************************************)
(* makeChoice(decisionId, optionId) as a function of the state: what it    *)
(* leaves in memory and in storage and what it returns or throws.          *)
(***************************************************************************)
\* decision.options?.find(o => o.id === optionId): <<>> for undefined
findOption_fallback(decision, optionId) ==
    LET hits == SelectSeq(decision.options, LAMBDA o : o.id = optionId)
    IN  IF hits = <<>> THEN <<decision.options[1]>> ELSE <<hits[1]>>
findOption(decision, optionId) ==
    LET hits == SelectSeq(decision.options, LAMBDA o : o.id = optionId)
    IN  IF hits = <<>> THEN <<>> ELSE <<hits[1]>>

\* this.#history.push({decisionId, optionId, timestamp, tape})
recordChoice_front(h, decisionId, optionId, t, tape) ==
    <<[decisionId |-> decisionId, optionId |-> optionId, timestamp |-> t, tape |-> tape]>> \o h
recordChoice(h, decisionId, optionId, t, tape) ==
    Append(h, [decisionId |-> decisionId, optionId |-> optionId, timestamp |-> t, tape |-> tape])

Thrown(status, ps, h, store) ==
    [status |-> status, ps |-> ps, history |-> h, storage |-> store,
     effects |-> <<>>, state |-> <<>>]

makeChoice(ps, h, store, decisionId, optionId, t, writable) ==
    IF decisionId \notin DOMAIN decisions THEN Thrown("UnknownDecision", ps, h, store)
    ELSE
    LET decision == decisions[decisionId]
        found    == findOption(decision, optionId)
    IN
    IF found = <<>> THEN Thrown("UnknownOption", ps, h, store)
    ELSE
    LET option == found[1]
        h2     == recordChoice(h, decisionId, optionId, t, prop(decision, "tape"))
        done   == applyEffects(ps, option.effects, t)
        saved  == saveState(done.ps, h2, store, writable)
    IN
    \* #saveState spreads activeFlags and arcFlags before its try block: a
    \* value that is not iterable throws TypeError out of makeChoice
    IF done.ps.activeFlags = NaNSet \/ done.ps.arcFlags = NaNSet
    THEN Thrown("TypeError", done.ps, h2, store)
    ELSE
    IF saved.threw THEN Thrown("StorageError", done.ps, h2, saved.storage)
    ELSE [status |-> "ok", ps |-> done.ps, history |-> h2, storage |-> saved.storage,
          effects |-> done.applied, state |-> <<getStateOf(done.ps, h2)>>]

\* importState(jsonString): TRUE/FALSE as returned
importState(ps, h, store, json, writable) ==
    IF ~json.valid \/ ~writable
    THEN [ok |-> FALSE, ps |-> ps, history |-> h, storage |-> store]
    ELSE LET r == restoreState(ps, h, <<json.doc>>)
         IN  [ok |-> TRUE, ps |-> r.ps, history |-> r.history, storage |-> <<json.doc>>]

(***************************************************************************)
(* Inputs.                                                                 *)
(***************************************************************************)
\* the (decisionId, optionId) pairs callers pass: every authored choice, an
\* unknown decision, an unknown option and an option of another decision
ChoiceInputs ==
    {<<"d1", "optA">>, <<"d1", "optB">>, <<"d2", "optDrop">>, <<"d2", "optBig">>,
     <<"d2", "optMix">>, <<"d_none", "optA">>, <<"d1", "opt_none">>, <<"d1", "optDrop">>}

\* a complete document in the format #saveState writes, with trust at 90
DocSaved90 ==
    [stats |-> [trust |-> 90, guard |-> 0, honesty |-> 0, vulnerability |-> 0],
     flags |-> <<"flag_seen">>, memories |-> <<>>, arcs |-> <<>>, history |-> <<>>]
\* a partial document: flags only, one of them listed twice
DocFlagsOnly == [flags |-> <<"flag_late", "flag_late", "flag_seen">>]
\* a hand-edited document with a stat above the range
DocTrust150 == [stats |-> [trust |-> 150]]

HandDocs == {DocSaved90, DocFlagsOnly, DocTrust150}

NoJson == [valid |-> FALSE]

\* the strings passed to importState: the current export, a hand-written
\* document, or text that is not JSON
ImportInputs ==
    {exportStateOf(playerState, history)} \cup {[valid |-> TRUE, doc |-> d] : d \in HandDocs}
        \cup {NoJson}

\* saved: "yes" when the call wrote the durable record, "no" when setItem threw,
\* "-" when the call did not reach a write
Ret(op, decisionId, optionId, status, applied, state, json, saved) ==
    [op |-> op, decisionId |-> decisionId, optionId |-> optionId, status |-> status,
     effects |-> applied, state |-> state, json |-> json, saved |-> saved]

(***************************************************************************)
(* The parsed decisions.json as load() and the validator read it: the      *)
(* entries of data.decisions, data.effects and data.consumers in file      *)
(* order, each with its key as id.                                         *)
(***************************************************************************)
\* decision.options || [], option.effects || [], consumer.checks || []
optionsOf(decision) == IF "options" \in DOMAIN decision THEN decision.options ELSE <<>>
effectsOf(option) == IF "effects" \in DOMAIN option THEN option.effects ELSE <<>>
checksOf(consumer) == IF "checks" \in DOMAIN consumer THEN consumer.checks ELSE <<>>

\* the concatenation of the sequences in a sequence: what nested loops visit
RECURSIVE Flatten(_)
Flatten(seqs) == IF seqs = <<>> THEN <<>> ELSE Head(seqs) \o Flatten(Tail(seqs))

\* every (decision, option, effect id) the loops over decisions visit, in order
productions(data) ==
    Flatten([i \in 1..Len(data.decisions) |->
        LET decision == data.decisions[i] IN
        Flatten([j \in 1..Len(optionsOf(decision)) |->
            LET option == optionsOf(decision)[j] IN
            [k \in 1..Len(effectsOf(option)) |->
                [effectId |-> effectsOf(option)[k], decId |-> decision.id,
                 optionId |-> option.id]]])])

\* every (consumer, effect id) the loops over consumers visit, in order
consumptions(data) ==
    Flatten([i \in 1..Len(data.consumers) |->
        LET consumer == data.consumers[i] IN
        [k \in 1..Len(checksOf(consumer)) |->
            [effectId |-> checksOf(consumer)[k], consumerId |-> consumer.id]]])

\* data.consumers of the authored dataset
Consumers ==
    << [id |-> "c_seen", tape |-> "tape2", checks |-> <<"flag_seen">>],
       [id |-> "c_first", tape |-> "tape2", checks |-> <<"mem_first", "flag_seen">>],
       [id |-> "c_idle", tape |-> "tape2"] >>

\* the keys of data.decisions and data.effects in file order
DecisionOrder == <<"d1", "d2", "d3">>
EffectOrder ==
    <<"flag_seen", "flag_late", "arc_open", "mem_first", "mem_note", "e_weird",
      "stat_trust_+5", "stat_trust_-30", "stat_trust_+150", "stat_guard_+5", "stat_charm_+5",
      "stat_flags_+5", "stat_arcs_-5", "stat_mems_+5">>

\* the authored dataset as load() receives it from response.json()
EngineData ==
    [decisions |-> [i \in 1..Len(DecisionOrder) |->
                       Decisions[DecisionOrder[i]] @@ [id |-> DecisionOrder[i]]],
     effects   |-> [i \in 1..Len(EffectOrder) |->
                       Effects[EffectOrder[i]] @@ [id |-> EffectOrder[i]]],
     consumers |-> Consumers,
     tapes     |-> <<"tape1", "tape2">>]

\* load(), "Build consumer index": every check of every consumer pushes the
\* consumer onto the array kept under the effect id, creating it when missing
indexConsumers(index, data) ==
    LET all == consumptions(data)
        ids == {all[i].effectId : i \in 1..Len(all)}
    IN  [e \in DOMAIN index \cup ids |->
            LET mine == SelectSeq(all, LAMBDA c : c.effectId = e)
            IN  (IF e \in DOMAIN index THEN index[e] ELSE <<>>)
                \o [i \in 1..Len(mine) |->
                       CHOOSE c \in {data.consumers[k] : k \in 1..Len(data.consumers)} :
                           c.id = mine[i].consumerId]]

\* load(), "Build producer reverse lookup": #producedBy.set(effectId, decId)
\* for every option effect in order, the last one stays
producedByOf(data) ==
    LET all == productions(data)
        ids == {all[i].effectId : i \in 1..Len(all)}
    IN  [e \in ids |->
            LET mine == SelectSeq(all, LAMBDA q : q.effectId = e)
            IN  mine[Len(mine)].decId]

\* #producedBy: an empty Map after construction; every load() of the same
\* dataset sets the same entries
producedBy == IF loaded THEN producedByOf(EngineData) ELSE EmptyMap

\* the number of load() calls this engine instance completed, read off the index
loadCount == IF "flag_seen" \in DOMAIN consumers
             THEN Cardinality({i \in 1..Len(consumers["flag_seen"]) :
                                  consumers["flag_seen"][i].id = "c_seen"})
             ELSE 0

(***************************************************************************)
(* The state machine.                                                      *)
(***************************************************************************)
\* the validator script before it has read a dataset and before it has run
NoDataset == [decisions |-> <<>>, effects |-> <<>>, consumers |-> <<>>, tapes |-> <<>>]
NotRun == [ran |-> FALSE, errors |-> <<>>, warnings |-> <<>>, exit |-> -1, verdict |-> "-"]

\* new DecisionEngine() in a browser whose localStorage holds no record
Init ==
    /\ playerState = DefaultState
    /\ history = <<>>
    /\ loaded = FALSE
    /\ storage = <<>>
    /\ now = 0
    /\ ret = Ret("new", "-", "-", "ok", <<>>, <<>>, NoJson, "-")
    /\ consumers = EmptyMap
    /\ initialized = FALSE
    /\ dataset = NoDataset
    /\ report = NotRun

\* a page navigation: the module is evaluated again, new DecisionEngine()
Construct ==
    /\ playerState' = DefaultState
    /\ history' = <<>>
    /\ loaded' = FALSE
    /\ consumers' = EmptyMap
    /\ ret' = Ret("new", "-", "-", "ok", <<>>, <<>>, NoJson, "-")
    /\ UNCHANGED <<storage, now>>

\* load(dataPath): a failed fetch throws before anything is indexed
Load(fetchOk) ==
    /\ fetchOk => loadCount < MaxLoads
    /\ IF fetchOk
       THEN LET r == restoreState(playerState, history, storage)
            IN  /\ loaded' = TRUE
                /\ consumers' = indexConsumers(consumers, EngineData)
                /\ playerState' = r.ps
                /\ history' = r.history
                /\ ret' = Ret("load", "-", "-", "ok", <<>>, <<>>, NoJson, "-")
       ELSE /\ UNCHANGED <<loaded, consumers, playerState, history>>
            /\ ret' = Ret("load", "-", "-", "LoadFailure", <<>>, <<>>, NoJson, "-")
    /\ UNCHANGED <<storage, now>>

MakeChoice(decisionId, optionId, writable) ==
    LET r == makeChoice(playerState, history, storage, decisionId, optionId, now, writable)
        accepted == r.status \notin {"UnknownDecision", "UnknownOption"}
    IN  /\ accepted => now < MaxClock
        /\ playerState' = r.ps
        /\ history' = r.history
        /\ storage' = r.storage
        /\ now' = IF accepted THEN now + 1 ELSE now
        /\ ret' = Ret("makeChoice", decisionId, optionId, r.status, r.effects, r.state,
                      NoJson, IF ~accepted \/ r.status = "TypeError" THEN "-"
                              ELSE IF writable THEN "yes" ELSE "no")
        /\ UNCHANGED <<loaded, consumers>>

ImportState(json, writable) ==
    LET r == importState(playerState, history, storage, json, writable)
    IN  /\ playerState' = r.ps
        /\ history' = r.history
        /\ storage' = r.storage
        /\ ret' = Ret("importState", "-", "-", IF r.ok THEN "true" ELSE "false",
                      <<>>, <<>>, json,
                      IF ~json.valid THEN "-" ELSE IF writable THEN "yes" ELSE "no")
        /\ UNCHANGED <<loaded, consumers, now>>

\* resetState(): defaults in memory, localStorage.removeItem(DECISION_KEY)
ResetState_keepsRecord ==
    /\ playerState' = DefaultState
    /\ history' = <<>>
    /\ ret' = Ret("resetState", "-", "-", "ok", <<>>, <<>>, NoJson, "-")
    /\ UNCHANGED <<storage, loaded, consumers, now>>
ResetState ==
    /\ playerState' = DefaultState
    /\ history' = <<>>
    /\ storage' = <<>>
    /\ ret' = Ret("resetState", "-", "-", "ok", <<>>, <<>>, NoJson, "-")
    /\ UNCHANGED <<loaded, consumers, now>>

\* exportState(): the caller receives the JSON text
ExportState ==
    /\ ret' = Ret("exportState", "-", "-", "ok", <<>>, <<>>,
                  exportStateOf(playerState, history), "-")
    /\ UNCHANGED <<playerState, history, loaded, consumers, storage, now>>

\* the page loads an engine that is new or that it has just reset
FirstLoad == ~loaded \/ ret.op = "resetState"

\* Play: the engine is constructed, loaded, played and reset; writes to
\* localStorage may fail.
Next ==
    \/ Construct /\ UNCHANGED <<gameVars, validatorVars>>
    \/ \E fetchOk \in BOOLEAN :
          (fetchOk => FirstLoad) /\ Load(fetchOk) /\ UNCHANGED <<gameVars, validatorVars>>
    \/ \E c \in ChoiceInputs, w \in BOOLEAN :
          MakeChoice(c[1], c[2], w) /\ UNCHANGED <<gameVars, validatorVars>>
    \/ ResetState /\ UNCHANGED <<gameVars, validatorVars>>

Spec == Init /\ [][Next]_vars

\* Play with export and import of saved documents.
NextPersist ==
    \/ Construct /\ UNCHANGED <<gameVars, validatorVars>>
    \/ FirstLoad /\ Load(TRUE) /\ UNCHANGED <<gameVars, validatorVars>>
    \/ \E c \in ChoiceInputs :
          now < MaxPersistClock /\ MakeChoice(c[1], c[2], TRUE) /\ UNCHANGED <<gameVars, validatorVars>>
    \/ \E j \in ImportInputs, w \in BOOLEAN : ImportState(j, w) /\ UNCHANGED <<gameVars, validatorVars>>
    \/ ResetState /\ UNCHANGED <<gameVars, validatorVars>>
    \/ ExportState /\ UNCHANGED <<gameVars, validatorVars>>

SpecPersist == Init /\ [][NextPersist]_vars

(***************************************************************************)
(* Properties.                                                             *)
(***************************************************************************)
\* the option a call names, read off the loaded catalog: <<>> when the decision
\* id is not in it or the decision has no option of that id
NamedOption(decisionId, optionId) ==
    IF decisionId \notin DOMAIN decisions THEN <<>>
    ELSE LET os == decisions[decisionId].options
             ix == {i \in 1..Len(os) : os[i].id = optionId}
         IN  IF ix = {} THEN <<>> ELSE <<os[CHOOSE i \in ix : \A j \in ix : i <= j]>>

\* the step is a call makeChoice(ret'.decisionId, ret'.optionId)
ChoiceStep == ret'.op = "makeChoice"
\* ... that names an option of a decision of the catalog
KnownChoiceStep == ChoiceStep /\ NamedOption(ret'.decisionId, ret'.optionId) # <<>>
StepOption == NamedOption(ret'.decisionId, ret'.optionId)[1]

\* C1: makeChoice throws UnknownDecision when the decision id is not in the
\* catalog and UnknownOption when the option id is not among the decision's
\* options, and then stats, flags, arcs, memories, history and the durable
\* record are what they were before the call.
C1_UnknownChoiceThrowsAndKeepsState ==
    [][ (ChoiceStep /\ NamedOption(ret'.decisionId, ret'.optionId) = <<>>)
        => /\ ret'.status = IF ret'.decisionId \notin DOMAIN decisions
                            THEN "UnknownDecision" ELSE "UnknownOption"
           /\ playerState' = playerState
           /\ history' = history
           /\ storage' = storage ]_vars

\* an unknown option was refused in a loaded engine that holds a play-through
C1_Witness ==
    /\ ret.op = "makeChoice" /\ ret.status = "UnknownOption"
    /\ loaded /\ Len(history) >= 2 /\ storage # <<>>

\* C2: a stat effect with delta d on a stat at v leaves max(0, min(100, v + d))
\* and the call does not fail, whatever v and d are.
C2_StatEffectClamps ==
    [][ KnownChoiceStep =>
        /\ ret'.status = "ok"
        /\ \A s \in StatNames :
              LET ds == SelectSeq(StepOption.effects,
                                  LAMBDA e : /\ e \in DOMAIN Effects
                                             /\ Effects[e].type = "stat"
                                             /\ Effects[e].stat = s)
                  v  == playerState[s]
              IN  /\ Len(ds) <= 1
                  /\ Len(ds) = 0 => playerState'[s] = v
                  /\ Len(ds) = 1 =>
                        LET sum == v + Effects[ds[1]].delta
                        IN  /\ sum < 0 => playerState'[s] = 0
                            /\ sum > 100 => playerState'[s] = 100
                            /\ sum \in 0..100 => playerState'[s] = sum ]_vars

\* trust was 10 after two choices of optA, and optDrop (delta -30) left it at 0
C2_Witness ==
    /\ ret.op = "makeChoice" /\ ret.optionId = "optDrop" /\ ret.status = "ok"
    /\ Len(history) = 3
    /\ history[1].optionId = "optA" /\ history[2].optionId = "optA"
    /\ history[3].optionId = "optDrop"
    /\ ret.effects[1].delta = -30 /\ ret.effects[1].newValue = 0
    /\ playerState.trust = 0

\* C3: in every state reached by load, makeChoice, importState and resetState
\* each of trust, guard, honesty and vulnerability is an integer in 0..100.
C3_StatsInRange ==
    \A s \in StatNames : playerState[s] \in 0..100

\* C4: a successful makeChoice appends one entry with its decision id, its
\* option id and the decision's tape to the end of the history and leaves the
\* earlier entries as they were; from the reset state, d1/optA (flag_seen,
\* trust +5) gives the flag, trust 5 and a history of the one entry optA.
C4_ChoiceAppendsOneHistoryEntry ==
    [][ KnownChoiceStep =>
        /\ ret'.status = "ok"
        /\ Len(history') = Len(history) + 1
        /\ \A i \in 1..Len(history) : history'[i] = history[i]
        /\ LET e == history'[Len(history')]
           IN  /\ e.decisionId = ret'.decisionId
               /\ e.optionId = ret'.optionId
               /\ e.tape = Decisions[ret'.decisionId].tape
        /\ ( /\ playerState = DefaultState /\ history = <<>>
             /\ ret'.decisionId = "d1" /\ ret'.optionId = "optA" )
           => /\ Has(playerState'.activeFlags, "flag_seen")
              /\ playerState'.trust = 5
              /\ Len(history') = 1
              /\ history'[1].optionId = "optA" ]_vars

\* a choice was appended behind two earlier entries of other options
C4_Witness ==
    /\ ret.op = "makeChoice" /\ ret.status = "ok" /\ ret.optionId = "optMix"
    /\ Len(history) = 3
    /\ history[1].optionId = "optA" /\ history[2].optionId = "optB"
    /\ history[3].optionId = "optMix" /\ history[3].tape = "tape2"

\* the number of times x occurs in seq
Count(seq, x) == Cardinality({i \in 1..Len(seq) : seq[i] = x})

\* C5: after a choice whose option lists flag (arc) effect E, E is in the
\* active-flag (arc-flag) set, once; and repeating the choice just made leaves
\* both sets as they were.
C5_FlagAndArcIdempotent ==
    [][ KnownChoiceStep =>
        /\ \A i \in 1..Len(StepOption.effects) :
              LET E == StepOption.effects[i] IN
              E \in DOMAIN Effects =>
                 /\ Effects[E].type = "flag" => Count(playerState'.activeFlags, E) = 1
                 /\ Effects[E].type = "arc"  => Count(playerState'.arcFlags, E) = 1
        /\ ( /\ ret.op = "makeChoice" /\ ret.status = "ok"
             /\ ret.decisionId = ret'.decisionId /\ ret.optionId = ret'.optionId )
           => /\ playerState'.activeFlags = playerState.activeFlags
              /\ playerState'.arcFlags = playerState.arcFlags ]_vars

\* optB (arc_open) was chosen three times in a row and arc_open is there once
C5_Witness ==
    /\ ret.op = "makeChoice" /\ ret.status = "ok" /\ ret.optionId = "optB"
    /\ Len(history) = 3
    /\ \A i \in 1..3 : history[i].optionId = "optB"
    /\ playerState.arcFlags = <<"arc_open">>

\* C6: every application of a memory effect M appends one record with id M to
\* the end of memories, earlier records stay in place, so the same choice made
\* twice leaves two records of M.
C6_MemoryAppendsEveryTime ==
    [][ KnownChoiceStep =>
        LET ms  == SelectSeq(StepOption.effects,
                             LAMBDA e : e \in DOMAIN Effects /\ Effects[e].type = "memory")
            old == playerState.memories
            new == playerState'.memories
        IN  /\ Len(new) = Len(old) + Len(ms)
            /\ \A i \in 1..Len(old) : new[i] = old[i]
            /\ \A j \in 1..Len(ms) : new[Len(old) + j].id = ms[j] ]_vars

\* optB (mem_first) chosen twice: two records of mem_first
C6_Witness ==
    /\ ret.op = "makeChoice" /\ ret.status = "ok" /\ ret.optionId = "optB"
    /\ Len(history) = 2
    /\ history[1].optionId = "optB" /\ history[2].optionId = "optB"
    /\ Len(playerState.memories) = 2
    /\ playerState.memories[1].id = "mem_first"
    /\ playerState.memories[2].id = "mem_first"

\* the ids of a list of applied-effect results
Ids(applied) == [i \in 1..Len(applied) |-> applied[i].id]

\* C7: an effect id of the chosen option that is not in the effect catalog is
\* skipped: the call succeeds, the id is missing from the returned applied
\* effects, the other ids are applied in order, the history entry is recorded
\* and the state is written to the durable record.
C7_UnknownEffectSkipped ==
    [][ ( /\ KnownChoiceStep
          /\ \E i \in 1..Len(StepOption.effects) : StepOption.effects[i] \notin DOMAIN Effects )
        => LET known == SelectSeq(StepOption.effects, LAMBDA e : e \in DOMAIN Effects) IN
           /\ ret'.status = "ok"
           /\ Ids(ret'.effects) = known
           /\ \A i \in 1..Len(known) :
                 LET e == Effects[known[i]] IN
                 /\ e.type = "flag" => Has(playerState'.activeFlags, known[i])
                 /\ e.type = "arc" => Has(playerState'.arcFlags, known[i])
                 /\ e.type = "memory" =>
                       \E j \in (Len(playerState.memories) + 1)..Len(playerState'.memories) :
                           playerState'.memories[j].id = known[i]
                 /\ (e.type = "stat" /\ e.stat \in StatNames) =>
                       /\ ret'.effects[i].newValue = playerState'[e.stat]
                       /\ playerState'[e.stat] # playerState[e.stat] \/ playerState[e.stat] = 100
           /\ Len(history') = Len(history) + 1
           /\ history'[Len(history')].optionId = ret'.optionId
           /\ ret'.saved = "yes" =>
                 /\ storage' # <<>>
                 /\ Len(storage'[1].history) = Len(history')
                 /\ Len(storage'[1].memories) = Len(playerState'.memories)
                 /\ storage'[1].flags = playerState'.activeFlags
                 /\ storage'[1].stats.guard = playerState'.guard ]_vars

\* optMix (which lists e_missing) was chosen and saved; five of its six ids
\* were applied
C7_Witness ==
    /\ ret.op = "makeChoice" /\ ret.optionId = "optMix" /\ ret.status = "ok"
    /\ ret.saved = "yes"
    /\ Ids(ret.effects) = <<"flag_late", "mem_note", "e_weird", "stat_guard_+5", "flag_seen">>
    /\ playerState.guard = 5
    /\ storage # <<>> /\ storage[1].stats.guard = 5

\* what a caller can observe of a state: a record read back from JSON lacks the
\* properties that were undefined
Observed(ps, h) ==
    [trust |-> ps.trust, guard |-> ps.guard, honesty |-> ps.honesty,
     vulnerability |-> ps.vulnerability, flags |-> ps.activeFlags, arcs |-> ps.arcFlags,
     memories |-> JSONArr(ps.memories), history |-> JSONArr(h)]

\* the state of a freshly constructed engine after it restored the durable record
FreshRestore == restoreState(DefaultState, <<>>, storage)

\* C8: after every operation that changes the player state (makeChoice,
\* importState, resetState) with storage available, a freshly constructed
\* engine that restores the durable record has the stats, flags, arcs,
\* memories and history of the in-memory state.
C8_DurableRecordMatchesMemory ==
    ( \/ ret.op = "makeChoice" /\ ret.status = "ok" /\ ret.saved = "yes"
      \/ ret.op = "importState" /\ ret.status = "true"
      \/ ret.op = "resetState" )
    => Observed(FreshRestore.ps, FreshRestore.history) = Observed(playerState, history)

\* C9: when the write of the snapshot fails during makeChoice the call returns
\* its success result, the history entry and the applied effects stay in
\* memory, the durable record is left as it was, and the next call works on
\* the in-memory state.
C9_SaveFailureKeepsChoice ==
    [][ KnownChoiceStep =>
        /\ ret'.saved = "no" =>
              /\ ret'.status = "ok"
              /\ storage' = storage
              /\ Len(history') = Len(history) + 1
              /\ history'[Len(history')].optionId = ret'.optionId
              /\ Ids(ret'.effects) =
                    SelectSeq(StepOption.effects, LAMBDA e : e \in DOMAIN Effects)
              /\ \A i \in 1..Len(ret'.effects) :
                    ret'.effects[i].type = "flag" =>
                        Has(playerState'.activeFlags, ret'.effects[i].id)
              /\ ret'.state # <<>>
              /\ ret'.state[1].history = history'
              /\ ret'.state[1].flags = playerState'.activeFlags
              /\ ret'.state[1].memories = playerState'.memories
              /\ ret'.state[1].trust = playerState'.trust
        /\ (ret.op = "makeChoice" /\ ret.saved = "no") =>
              /\ ret'.status = "ok"
              /\ Len(history') = Len(history) + 1
              /\ \A i \in 1..Len(history) : history'[i] = history[i] ]_vars

\* two choices of optA were made while storage refused every write
C9_Witness ==
    /\ ret.op = "makeChoice" /\ ret.status = "ok" /\ ret.saved = "no"
    /\ Len(history) = 2 /\ history[2].optionId = "optA"
    /\ playerState.trust = 10 /\ playerState.activeFlags = <<"flag_seen">>
    /\ storage = <<>>

\* C10: importing what exportState just returned leaves the stats, flags, arcs,
\* memory ids and history as they were before the export.
C10_ExportImportRoundTrip ==
    [][ (ret'.op = "importState" /\ ret'.json = exportStateOf(playerState, history))
        => /\ \A s \in StatNames : playerState'[s] = playerState[s]
           /\ playerState'.activeFlags = playerState.activeFlags
           /\ playerState'.arcFlags = playerState.arcFlags
           /\ Len(playerState'.memories) = Len(playerState.memories)
           /\ \A i \in 1..Len(playerState.memories) :
                 playerState'.memories[i].id = playerState.memories[i].id
           /\ history' = history ]_vars

\* the export of a state with trust 5, a flag, an arc, a memory and two history
\* entries was imported
C10_Witness ==
    /\ ret.op = "importState" /\ ret.status = "true"
    /\ ret.json = exportStateOf(playerState, history)
    /\ playerState.trust = 5
    /\ playerState.activeFlags = <<"flag_seen">>
    /\ playerState.arcFlags = <<"arc_open">>
    /\ Len(playerState.memories) = 1
    /\ Len(history) = 2

\* C13: resetState sets the four stats to 0, empties flags, arcs, memories and
\* history and erases the durable record, so a load that follows restores
\* nothing and the state stays at its creation defaults.
C13_ResetClearsStateAndRecord ==
    [][ /\ ret'.op = "resetState" =>
              /\ \A s \in StatNames : playerState'[s] = 0
              /\ playerState'.activeFlags = <<>>
              /\ playerState'.arcFlags = <<>>
              /\ playerState'.memories = <<>>
              /\ history' = <<>>
              /\ storage' = <<>>
        /\ (ret.op = "resetState" /\ ret'.op = "load") =>
              /\ \A s \in StatNames : playerState'[s] = 0
              /\ playerState'.activeFlags = <<>>
              /\ playerState'.arcFlags = <<>>
              /\ playerState'.memories = <<>>
              /\ history' = <<>> ]_vars

\* an engine that had applied three choices was reset
C13_Witness ==
    /\ ret.op = "resetState"
    /\ now = 3
    /\ playerState = DefaultState /\ history = <<>> /\ storage = <<>>

(***************************************************************************)
(* State queries and determineEnding.                                      *)
(***************************************************************************)
\* getStat(statName): this.#playerState[statName] || 0
getStat(ps, statName) == IF statName \in DOMAIN ps THEN ps[statName] ELSE 0

hasFlag(ps, flagId) == Has(ps.activeFlags, flagId)
hasAnyFlag(ps, flagIds) == \E i \in 1..Len(flagIds) : Has(ps.activeFlags, flagIds[i])
hasAllFlags(ps, flagIds) == \A i \in 1..Len(flagIds) : Has(ps.activeFlags, flagIds[i])

\* getLastChoice(decisionId): the last entry of that decision, <<>> for null
getLastChoice(h, decisionId) ==
    LET entries == SelectSeq(h, LAMBDA e : e.decisionId = decisionId)
    IN  IF Len(entries) > 0 THEN <<entries[Len(entries)]>> ELSE <<>>

wasChoiceMade(h, decisionId, optionId) ==
    \E i \in 1..Len(h) : h[i].decisionId = decisionId /\ h[i].optionId = optionId

\* the record determineEnding returns when no ending is left
DefaultEnding == [id |-> "default", description |-> "The story continues..."]

\* one pass of the loop body of determineEnding: FALSE when the body runs into
\* a continue. A threshold of 0 is falsy and is not compared.
endingPasses(ps, ending) ==
    /\ "requires" \in DOMAIN ending =>
          \A i \in 1..Len(ending.requires) :
              hasFlag(ps, ending.requires[i]) \/ Has(ps.arcFlags, ending.requires[i])
    /\ ~( "min_trust" \in DOMAIN ending /\ ending.min_trust # 0
          /\ ps.trust < ending.min_trust )
    /\ ~( "min_guard" \in DOMAIN ending /\ ending.min_guard # 0
          /\ ps.guard < ending.min_guard )

\* determineEnding(endings): Object.entries of an array yields its elements in
\* index order under the keys "0", "1", ...; the result is {id: key, ...ending}
determineEnding(ps, endings) ==
    LET hits == {i \in 1..Len(endings) : endingPasses(ps, endings[i])}
    IN  IF hits = {} THEN DefaultEnding
        ELSE LET i == CHOOSE k \in hits : \A j \in hits : k <= j
             IN  endings[i] @@ [id |-> ToString(i - 1)]

\* what a query returned: args are its arguments, value its result
QueryRet(op, args, value) ==
    [args |-> args, value |-> value] @@ Ret(op, "-", "-", "ok", <<>>, <<>>, NoJson, "-")

\* the ending lists passed to determineEnding
EndingsByTrust ==
    << [id |-> "A", min_trust |-> 20], [id |-> "B", requires |-> <<"flag_seen">>],
       [id |-> "default"] >>
EndingsByArc ==
    << [id |-> "open", requires |-> <<"arc_open", "flag_seen">>, min_guard |-> 5],
       [id |-> "warm", requires |-> <<"arc_open">>, min_trust |-> 5],
       [id |-> "late", requires |-> <<"flag_late">>, min_guard |-> 5] >>
EndingsFloor == << [id |-> "floor", min_trust |-> 0] >>
EndingInputs == {EndingsByTrust, EndingsByArc, EndingsFloor}

GetStat(statName) ==
    /\ ret' = QueryRet("getStat", <<statName>>, getStat(playerState, statName))
    /\ UNCHANGED <<playerState, history, loaded, consumers, storage, now>>

HasFlag(flagId) ==
    /\ ret' = QueryRet("hasFlag", <<flagId>>, hasFlag(playerState, flagId))
    /\ UNCHANGED <<playerState, history, loaded, consumers, storage, now>>

HasAnyFlag(flagIds) ==
    /\ ret' = QueryRet("hasAnyFlag", flagIds, hasAnyFlag(playerState, flagIds))
    /\ UNCHANGED <<playerState, history, loaded, consumers, storage, now>>

HasAllFlags(flagIds) ==
    /\ ret' = QueryRet("hasAllFlags", flagIds, hasAllFlags(playerState, flagIds))
    /\ UNCHANGED <<playerState, history, loaded, consumers, storage, now>>

\* getMemories(): [...this.#playerState.memories], a new array of the same records
GetMemories ==
    /\ ret' = QueryRet("getMemories", <<>>, playerState.memories)
    /\ UNCHANGED <<playerState, history, loaded, consumers, storage, now>>

\* getHistory(): [...this.#history], a new array of the same entries
GetHistory ==
    /\ ret' = QueryRet("getHistory", <<>>, history)
    /\ UNCHANGED <<playerState, history, loaded, consumers, storage, now>>

GetState ==
    /\ ret' = QueryRet("getState", <<>>, getStateOf(playerState, history))
    /\ UNCHANGED <<playerState, history, loaded, consumers, storage, now>>

GetLastChoice(decisionId) ==
    /\ ret' = QueryRet("getLastChoice", <<decisionId>>, getLastChoice(history, decisionId))
    /\ UNCHANGED <<playerState, history, loaded, consumers, storage, now>>

WasChoiceMade(decisionId, optionId) ==
    /\ ret' = QueryRet("wasChoiceMade", <<decisionId, optionId>>,
                       wasChoiceMade(history, decisionId, optionId))
    /\ UNCHANGED <<playerState, history, loaded, consumers, storage, now>>

DetermineEnding(endings) ==
    /\ ret' = QueryRet("determineEnding", endings, determineEnding(playerState, endings))
    /\ UNCHANGED <<playerState, history, loaded, consumers, storage, now>>

(***************************************************************************)
(* The caller of getMemories() / getHistory() changes what it was given.   *)
(* The array is the caller's own; its elements are the objects the engine  *)
(* holds in #playerState.memories and #history.                            *)
(***************************************************************************)
\* returned.push(x): the engine's array is another array
CallerPushes ==
    /\ ret.op \in {"getMemories", "getHistory"}
    /\ Len(ret.value) < 2
    /\ ret' = [ret EXCEPT !.op = "callerPush", !.value = Append(@, [id |-> "pushed"])]
    /\ UNCHANGED <<playerState, history, loaded, consumers, storage, now>>

\* returned[i].timestamp = -1: the object is the one the engine holds
CallerEditsRecord(i) ==
    /\ ret.op \in {"getMemories", "getHistory"}
    /\ i \in 1..Len(ret.value)
    /\ "timestamp" \in DOMAIN ret.value[i]
    /\ LET edited == [ret.value[i] EXCEPT !.timestamp = -1] IN
       /\ ret' = [ret EXCEPT !.op = "callerEdit", !.value[i] = edited]
       /\ IF ret.op = "getMemories"
          THEN /\ playerState' = [playerState EXCEPT !.memories[i] = edited]
               /\ UNCHANGED history
          ELSE /\ history' = [history EXCEPT ![i] = edited]
               /\ UNCHANGED playerState
    /\ UNCHANGED <<loaded, consumers, storage, now>>

\* the state S1 of an engine after load() and makeChoice("d1", "optA") at time 0,
\* and the text exportState() returns in it
S1State == [DefaultState EXCEPT !.trust = 5, !.activeFlags = <<"flag_seen">>]
S1History == <<[decisionId |-> "d1", optionId |-> "optA", timestamp |-> 0, tape |-> "tape1"]>>
ExportS1 == exportStateOf(S1State, S1History)

\* a hand-edited document with a stat below the range
DocTrustNeg == [stats |-> [trust |-> -5]]

\* the strings passed to importState in a session
SessionImports == {ExportS1, [valid |-> TRUE, doc |-> DocTrustNeg]}

\* the number of choices accepted in a session
MaxSessionClock == 1

\* A session: the game is loaded and played with storage available, an export
\* taken earlier is imported, and the host page queries the engine.
NextSession ==
    \/ FirstLoad /\ Load(TRUE) /\ UNCHANGED <<gameVars, validatorVars>>
    \/ \E c \in ChoiceInputs :
          now < MaxSessionClock /\ MakeChoice(c[1], c[2], TRUE) /\ UNCHANGED <<gameVars, validatorVars>>
    \/ \E j \in SessionImports : ImportState(j, TRUE) /\ UNCHANGED <<gameVars, validatorVars>>
    \/ ResetState /\ UNCHANGED <<gameVars, validatorVars>>
    \/ \E statName \in {"trust", "guard", "charm"} : GetStat(statName) /\ UNCHANGED <<gameVars, validatorVars>>
    \/ \E f \in {"flag_seen", "flag_late"} : HasFlag(f) /\ UNCHANGED <<gameVars, validatorVars>>
    \/ HasAnyFlag(<<"flag_seen", "flag_late">>) /\ UNCHANGED <<gameVars, validatorVars>>
    \/ HasAllFlags(<<"flag_seen", "flag_late">>) /\ UNCHANGED <<gameVars, validatorVars>>
    \/ GetMemories /\ UNCHANGED <<gameVars, validatorVars>>
    \/ GetHistory /\ UNCHANGED <<gameVars, validatorVars>>
    \/ GetState /\ UNCHANGED <<gameVars, validatorVars>>
    \/ \E d \in {"d1", "d2"} : GetLastChoice(d) /\ UNCHANGED <<gameVars, validatorVars>>
    \/ \E c \in {<<"d1", "optA">>, <<"d2", "optMix">>} :
          WasChoiceMade(c[1], c[2]) /\ UNCHANGED <<gameVars, validatorVars>>
    \/ \E endings \in EndingInputs : DetermineEnding(endings) /\ UNCHANGED <<gameVars, validatorVars>>
    \/ CallerPushes /\ UNCHANGED <<gameVars, validatorVars>>
    \/ \E i \in 1..2 : CallerEditsRecord(i) /\ UNCHANGED <<gameVars, validatorVars>>

SpecSession == Init /\ [][NextSession]_vars

\* C11: importing, into an engine in any state S2, the document exportState
\* produced in state S1 leaves the engine with the stats, flags, arcs, memories
\* and history of S1.
C11_ImportReplacesWholesale ==
    [][ (ret'.op = "importState" /\ ret'.status = "true" /\ ret'.json = ExportS1)
        => Observed(playerState', history') = Observed(S1State, S1History) ]_vars

\* a candidate matches iff its requires are all active flags or arcs and each
\* threshold that is given is met
C12_Matches(ps, ending) ==
    /\ "requires" \in DOMAIN ending =>
          \A i \in 1..Len(ending.requires) :
              Has(ps.activeFlags, ending.requires[i]) \/ Has(ps.arcFlags, ending.requires[i])
    /\ "min_trust" \in DOMAIN ending => ps.trust >= ending.min_trust
    /\ "min_guard" \in DOMAIN ending => ps.guard >= ending.min_guard

\* C12: determineEnding returns the first candidate, in authored order, that
\* matches, and the default ending record iff no candidate matches.
C12_FirstMatchingEnding ==
    ret.op = "determineEnding" =>
        LET endings == ret.args
            hits == {i \in 1..Len(endings) : C12_Matches(playerState, endings[i])}
        IN  /\ hits = {} <=> ret.value = DefaultEnding
            /\ hits # {} =>
                  \E i \in hits : /\ \A j \in hits : i <= j
                                  /\ ret.value.id = endings[i].id

\* C14: the query operations leave the player state, the history and the
\* durable record unchanged, and so does any change a caller makes to the
\* sequence getMemories or getHistory returned or to a record inside it.
C14_QueriesReadOnlyAndCopies ==
    [][ ret'.op \in {"getStat", "hasFlag", "hasAnyFlag", "hasAllFlags", "getMemories",
                     "getHistory", "getState", "getLastChoice", "wasChoiceMade",
                     "determineEnding", "callerPush", "callerEdit"}
        => /\ playerState' = playerState
           /\ history' = history
           /\ storage' = storage ]_vars

(***************************************************************************)
(* The consistency validator (validate-decisions.mjs). A dataset is the    *)
(* parsed decisions.json: decisions, effects and consumers are the entries *)
(* of the JSON objects in file order, each with its key as id; tapes is    *)
(* meta.tapes.                                                             *)
(***************************************************************************)
\* producedEffects: its keys in insertion order, and the array under a key,
\* which gets one push per option effect
producedKeys(data) ==
    LET all == productions(data) IN NewSet([i \in 1..Len(all) |-> all[i].effectId])
producedEffects(data, effectId) ==
    LET mine == SelectSeq(productions(data), LAMBDA p : p.effectId = effectId)
    IN  [i \in 1..Len(mine) |-> mine[i].decId]

\* consumedEffects.get(effectId) || []
consumedEffects(data, effectId) ==
    LET mine == SelectSeq(consumptions(data), LAMBDA c : c.effectId = effectId)
    IN  [i \in 1..Len(mine) |-> mine[i].consumerId]

\* allEffectIds.has(effectId)
allEffectIds(data) == {data.effects[i].id : i \in 1..Len(data.effects)}

\* effects[effectId]: <<>> for undefined
effectOf(data, effectId) ==
    LET hits == SelectSeq(data.effects, LAMBDA e : e.id = effectId)
    IN  IF hits = <<>> THEN <<>> ELSE <<hits[Len(hits)]>>

\* CHECK 3: one error per option effect, then one per consumer check, that is
\* not a key of the effect catalog
brokenReferences_optionsOnly(data) ==
    LET bad == SelectSeq(productions(data), LAMBDA p : p.effectId \notin allEffectIds(data))
    IN  [i \in 1..Len(bad) |->
            [type |-> "BROKEN_EFFECT_REFERENCE", decId |-> bad[i].decId,
             optionId |-> bad[i].optionId, effectId |-> bad[i].effectId]]
brokenReferences(data) ==
    LET bad  == SelectSeq(productions(data), LAMBDA p : p.effectId \notin allEffectIds(data))
        badC == SelectSeq(consumptions(data), LAMBDA c : c.effectId \notin allEffectIds(data))
    IN  [i \in 1..Len(bad) |->
            [type |-> "BROKEN_EFFECT_REFERENCE", decId |-> bad[i].decId,
             optionId |-> bad[i].optionId, effectId |-> bad[i].effectId]]
        \o
        [i \in 1..Len(badC) |->
            [type |-> "BROKEN_CONSUMER_REFERENCE", consumerId |-> badC[i].consumerId,
             effectId |-> badC[i].effectId]]

\* effect?.type === t
typeIs(found, t) == found # <<>> /\ "type" \in DOMAIN found[1] /\ found[1].type = t

\* effect?.consumed_by?.length is truthy
hasInlineConsumers(found) ==
    found # <<>> /\ "consumed_by" \in DOMAIN found[1] /\ Len(found[1].consumed_by) > 0

\* CHECK 4, the test on one key of producedEffects
isGhostEffect_noOverride(data, effectId) ==
    LET found == effectOf(data, effectId) IN
    /\ ~typeIs(found, "stat")
    /\ ~typeIs(found, "arc")
    /\ Len(consumedEffects(data, effectId)) = 0
isGhostEffect(data, effectId) ==
    LET found == effectOf(data, effectId) IN
    /\ ~typeIs(found, "stat")
    /\ ~typeIs(found, "arc")
    /\ Len(consumedEffects(data, effectId)) = 0
    /\ ~hasInlineConsumers(found)

\* CHECK 4: one warning per produced effect id that passes the test
ghostEffects(data) ==
    LET ghosts == SelectSeq(producedKeys(data), LAMBDA e : isGhostEffect(data, e))
    IN  [i \in 1..Len(ghosts) |->
            [type |-> "GHOST_EFFECT", effectId |-> ghosts[i],
             producers |-> producedEffects(data, ghosts[i])]]

\* CHECK 5: one warning per catalog key that no option produces
unusedEffects(data) ==
    LET ids    == NewSet([i \in 1..Len(data.effects) |-> data.effects[i].id])
        unused == SelectSeq(ids, LAMBDA e : ~Has(producedKeys(data), e))
    IN  [i \in 1..Len(unused) |-> [type |-> "UNUSED_EFFECT", effectId |-> unused[i]]]

\* setsEqual(a, b) on two Sets
setsEqual_sizeOnly(a, b) == Len(a) = Len(b)
setsEqual(a, b) ==
    /\ Len(a) = Len(b)
    /\ \A i \in 1..Len(a) : Has(b, a[i])

\* CHECK 6, the test on one decision
isGhostDecision(decision) ==
    LET optionEffectSets ==
            [j \in 1..Len(optionsOf(decision)) |-> NewSet(effectsOf(optionsOf(decision)[j]))]
    IN  /\ Len(optionEffectSets) >= 2
        /\ \A j \in 2..Len(optionEffectSets) :
              setsEqual(optionEffectSets[j], optionEffectSets[1])

\* CHECK 6: one error per decision whose options all have the first option's set
ghostDecisions(data) ==
    LET ghosts == SelectSeq(data.decisions, isGhostDecision)
    IN  [i \in 1..Len(ghosts) |-> [type |-> "GHOST_DECISION", decisionId |-> ghosts[i].id]]

\* tapeIndex[tape]: <<>> for undefined, else the 0-based index written last
tapeIndex_indexOf(data, tape) ==
    LET at == {i \in 1..Len(data.tapes) : data.tapes[i] = tape}
    IN  IF at = {} THEN <<-1>> ELSE <<(CHOOSE i \in at : \A j \in at : j <= i) - 1>>
tapeIndex(data, tape) ==
    LET at == {i \in 1..Len(data.tapes) : data.tapes[i] = tape}
    IN  IF at = {} THEN <<>> ELSE <<(CHOOSE i \in at : \A j \in at : j <= i) - 1>>

\* decisions[producerDecId]?.tape
tapeOfDecision(data, decId) ==
    LET hits == SelectSeq(data.decisions, LAMBDA d : d.id = decId)
    IN  IF hits # <<>> /\ "tape" \in DOMAIN hits[1] THEN hits[1].tape ELSE Undefined

\* CHECK 7 for one consumer whose tape is in the ordering: one error per check
\* and per entry of producedEffects under it whose decision's tape comes later
backwardOf(data, consumer) ==
    LET consumerIdx == tapeIndex(data, consumer.tape) IN
    Flatten([k \in 1..Len(checksOf(consumer)) |->
        LET effectId  == checksOf(consumer)[k]
            producers == producedEffects(data, effectId)
            late == SelectSeq(producers, LAMBDA d :
                        LET producerIdx == tapeIndex(data, tapeOfDecision(data, d))
                        IN  producerIdx # <<>> /\ producerIdx[1] > consumerIdx[1])
        IN  [n \in 1..Len(late) |->
                [type |-> "BACKWARD_DEPENDENCY", consumerTape |-> consumer.tape,
                 producerTape |-> tapeOfDecision(data, late[n]), effectId |-> effectId]]])

\* CHECK 7: the errors pushed, in order
backwardDependencies(data) ==
    Flatten([i \in 1..Len(data.consumers) |->
        IF tapeIndex(data, data.consumers[i].tape) = <<>> THEN <<>>
        ELSE backwardOf(data, data.consumers[i])])

\* CHECK 7: the warnings pushed, in order
unknownTapes(data) ==
    LET lost == SelectSeq(data.consumers, LAMBDA c : tapeIndex(data, c.tape) = <<>>)
    IN  [i \in 1..Len(lost) |->
            [type |-> "UNKNOWN_TAPE", consumerId |-> lost[i].id, consumerTape |-> lost[i].tape]]

\* VERDICT: the exit status and the banner
verdict_strict(errors, warnings) ==
    IF Len(errors) = 0 /\ Len(warnings) = 0 THEN [exit |-> 0, verdict |-> "clean pass"]
    ELSE [exit |-> 1, verdict |-> "fail"]
verdict(errors, warnings) ==
    IF Len(errors) = 0 /\ Len(warnings) = 0 THEN [exit |-> 0, verdict |-> "clean pass"]
    ELSE IF Len(errors) = 0 THEN [exit |-> 0, verdict |-> "pass with warnings"]
    ELSE [exit |-> 1, verdict |-> "fail"]

\* validate(jsonPath) on a file that parsed
validate(data) ==
    LET errors   == brokenReferences(data) \o ghostDecisions(data) \o backwardDependencies(data)
        warnings == ghostEffects(data) \o unusedEffects(data) \o unknownTapes(data)
        v        == verdict(errors, warnings)
    IN  [ran |-> TRUE, errors |-> errors, warnings |-> warnings,
         exit |-> v.exit, verdict |-> v.verdict]

\* validate(jsonPath) on a file that cannot be read or parsed: process.exit(1)
\* before any check
FatalLoad == [ran |-> FALSE, errors |-> <<>>, warnings |-> <<>>, exit |-> 1, verdict |-> "fatal"]

(***************************************************************************)
(* The datasets the validator is run on.                                   *)
(***************************************************************************)
\* effect catalogs: the plain one; one whose flag names an inline consumer and
\* whose memory has an empty inline list; one that lacks the flag
CatalogPlain ==
    << [id |-> "e_foo", type |-> "flag"], [id |-> "e_bar", type |-> "memory"],
       [id |-> "s_t", type |-> "stat", stat |-> "trust", delta |-> 5],
       [id |-> "a_x", type |-> "arc"] >>
CatalogInline ==
    << [id |-> "e_foo", type |-> "flag", consumed_by |-> <<"scene_9">>],
       [id |-> "e_bar", type |-> "memory", consumed_by |-> <<>>],
       [id |-> "s_t", type |-> "stat", stat |-> "trust", delta |-> 5],
       [id |-> "a_x", type |-> "arc"] >>
CatalogSmall == << [id |-> "e_bar", type |-> "memory"], [id |-> "a_x", type |-> "arc"] >>
EffectCatalogs == {CatalogPlain, CatalogInline, CatalogSmall}

\* the option lists of a decision
OptionLists ==
    { << [id |-> "o1", effects |-> <<"e_foo">>] >>,
      << [id |-> "o1", effects |-> <<"e_foo">>], [id |-> "o2", effects |-> <<"e_foo">>] >>,
      << [id |-> "o1", effects |-> <<"e_foo", "e_bar">>],
         [id |-> "o2", effects |-> <<"e_bar", "e_foo", "e_foo">>] >>,
      << [id |-> "o1", effects |-> <<"e_foo", "e_bar">>],
         [id |-> "o2", effects |-> <<"e_foo", "s_t">>] >>,
      << [id |-> "o1", effects |-> <<"e_foo">>], [id |-> "o2"] >>,
      << [id |-> "o1", effects |-> <<"a_x">>], [id |-> "o2", effects |-> <<"s_t">>],
         [id |-> "o3", effects |-> <<"e_zzz">>] >>,
      << [id |-> "o1"], [id |-> "o2", effects |-> <<>>] >> }

\* the second decision's option lists
OptionListsLate ==
    { << [id |-> "p1", effects |-> <<"e_foo">>] >>,
      << [id |-> "p1", effects |-> <<"e_foo", "a_x">>],
         [id |-> "p2", effects |-> <<"e_foo", "e_bar">>] >> }

TapeNames == {"tape1", "tape2", "tape9"}

\* decisions: d1 in tape1, with or without options, alone or followed by d2
DecisionLists ==
    LET firsts == {[id |-> "d1", tape |-> "tape1"]}
                    \cup {[id |-> "d1", tape |-> "tape1", options |-> o] : o \in OptionLists}
        seconds == {[id |-> "d2", tape |-> t, options |-> o] :
                        t \in TapeNames, o \in OptionListsLate}
    IN  {<<a>> : a \in firsts} \cup {<<a, b>> : a \in firsts, b \in seconds}

CheckLists == { <<"e_foo">>, <<"e_foo", "e_foo">>, <<"e_bar", "e_nope">>, <<>> }

\* consumers: none, c1, or c1 followed by c2
ConsumerLists ==
    LET firsts == {[id |-> "c1", tape |-> t, checks |-> c] : t \in TapeNames, c \in CheckLists}
                    \cup {[id |-> "c1", tape |-> "tape1"]}
        second == [id |-> "c2", tape |-> "tape1", checks |-> <<"e_bar">>]
    IN  {<<>>} \cup {<<a>> : a \in firsts} \cup {<<a, second>> : a \in firsts}

TapeOrders == { <<"tape1", "tape2">>, <<"tape2", "tape1">> }

\* the files the validator is pointed at: a parsed dataset, or one that does
\* not parse
DatasetFiles ==
    { [valid |-> TRUE,
       doc |-> [decisions |-> d, effects |-> e, consumers |-> c, tapes |-> t]] :
         d \in DecisionLists, e \in EffectCatalogs, c \in ConsumerLists, t \in TapeOrders }
    \cup {NoJson}

\* node validate-decisions.mjs: one run of the script
Validate(file) ==
    /\ report = NotRun
    /\ IF file.valid
       THEN /\ dataset' = file.doc
            /\ report' = validate(file.doc)
       ELSE /\ dataset' = dataset
            /\ report' = FatalLoad
    /\ UNCHANGED <<engineVars, gameVars>>

NextValidate == \E file \in DatasetFiles : Validate(file)

SpecValidate == Init /\ [][NextValidate]_vars

(***************************************************************************)
(* Properties of the validator, stated on the dataset that was read and    *)
(* the report that was produced.                                           *)
(***************************************************************************)
ErrorsOfType(t) == SelectSeq(report.errors, LAMBDA e : e.type = t)
WarningsOfType(t) == SelectSeq(report.warnings, LAMBDA w : w.type = t)

CatalogIds == {dataset.effects[i].id : i \in 1..Len(dataset.effects)}

\* option o of decision d names effect id E
OptionNames(d, o, E) == Has(effectsOf(o), E)
\* decision d produces E in some option
Produces(d, E) == \E j \in 1..Len(optionsOf(d)) : OptionNames(d, optionsOf(d)[j], E)
\* some decision produces E
Produced(E) == \E i \in 1..Len(dataset.decisions) : Produces(dataset.decisions[i], E)
\* consumer c lists E in its checks
Checks(c, E) == Has(checksOf(c), E)
\* some consumer lists E in its checks
Consumed(E) == \E i \in 1..Len(dataset.consumers) : Checks(dataset.consumers[i], E)

\* every effect id the dataset mentions
MentionedIds ==
    CatalogIds
    \cup UNION {UNION {{effectsOf(optionsOf(dataset.decisions[i])[j])[k] :
                            k \in 1..Len(effectsOf(optionsOf(dataset.decisions[i])[j]))} :
                       j \in 1..Len(optionsOf(dataset.decisions[i]))} :
                i \in 1..Len(dataset.decisions)}
    \cup UNION {{checksOf(dataset.consumers[i])[k] : k \in 1..Len(checksOf(dataset.consumers[i]))} :
                i \in 1..Len(dataset.consumers)}

\* the catalog's type of E, Undefined when E is not in the catalog
TypeOf(E) ==
    IF \E i \in 1..Len(dataset.effects) : dataset.effects[i].id = E
    THEN (CHOOSE e \in {dataset.effects[i] : i \in 1..Len(dataset.effects)} : e.id = E).type
    ELSE Undefined

\* the position of a tape in the authored ordering, 0 when it is not there
TapePos(t) ==
    IF Has(dataset.tapes, t) THEN CHOOSE i \in 1..Len(dataset.tapes) : dataset.tapes[i] = t
    ELSE 0

\* C15: every effect id named in an option's effects or in a consumer's checks
\* that is absent from the effect catalog gets a broken-reference error, and no
\* broken-reference error names an effect id that is defined in the catalog.
C15_BrokenReferencesReported ==
    report.ran =>
      /\ \A i \in 1..Len(dataset.decisions) :
           \A j \in 1..Len(optionsOf(dataset.decisions[i])) :
             LET d == dataset.decisions[i]
                 o == optionsOf(d)[j]
             IN  \A E \in MentionedIds \ CatalogIds :
                   OptionNames(d, o, E) =>
                     \E n \in 1..Len(report.errors) :
                        report.errors[n] = [type |-> "BROKEN_EFFECT_REFERENCE", decId |-> d.id,
                                            optionId |-> o.id, effectId |-> E]
      /\ \A i \in 1..Len(dataset.consumers) :
           \A E \in MentionedIds \ CatalogIds :
             Checks(dataset.consumers[i], E) =>
               \E n \in 1..Len(report.errors) :
                  report.errors[n] = [type |-> "BROKEN_CONSUMER_REFERENCE",
                                      consumerId |-> dataset.consumers[i].id, effectId |-> E]
      /\ \A n \in 1..Len(report.errors) :
           report.errors[n].type \in {"BROKEN_EFFECT_REFERENCE", "BROKEN_CONSUMER_REFERENCE"}
             => report.errors[n].effectId \notin CatalogIds

\* a dataset with an option naming e_zzz and a consumer checking e_nope, both
\* absent from a catalog that defines the other ids, was validated
C15_Witness ==
    /\ report.ran
    /\ Len(ErrorsOfType("BROKEN_EFFECT_REFERENCE")) = 1
    /\ Len(ErrorsOfType("BROKEN_CONSUMER_REFERENCE")) = 1
    /\ dataset.effects = CatalogPlain
    /\ Produced("e_zzz") /\ Consumed("e_nope") /\ Consumed("e_bar")

\* C16 as stated: a produced effect id whose type is neither stat nor arc is
\* flagged as a ghost effect iff no consumer lists it in its checks.
C16_GhostEffectIffNoConsumer ==
    report.ran =>
      \A E \in MentionedIds :
        (Produced(E) /\ TypeOf(E) \notin {"stat", "arc"}) =>
          ( (\E n \in 1..Len(report.warnings) :
                report.warnings[n].type = "GHOST_EFFECT" /\ report.warnings[n].effectId = E)
            <=> ~Consumed(E) )

\* the catalog entry of E carries a non-empty inline consumed_by list
InlineConsumed(E) ==
    \E i \in 1..Len(dataset.effects) :
        /\ dataset.effects[i].id = E
        /\ "consumed_by" \in DOMAIN dataset.effects[i]
        /\ dataset.effects[i].consumed_by # <<>>

\* C16, amended: a produced effect id whose type is neither stat nor arc gets
\* exactly one GHOST_EFFECT warning if no consumer lists it in its checks and
\* its catalog entry has no non-empty inline consumed_by list, and none
\* otherwise.
C16_GhostEffectIffNoConsumerNorInline ==
    report.ran =>
      \A E \in MentionedIds :
        (Produced(E) /\ TypeOf(E) \notin {"stat", "arc"}) =>
          Len(SelectSeq(report.warnings,
                        LAMBDA w : w.type = "GHOST_EFFECT" /\ w.effectId = E))
            = IF ~Consumed(E) /\ ~InlineConsumed(E) THEN 1 ELSE 0

\* e_foo, with an inline consumer and no consumer in the consumer catalog, is
\* not flagged, while e_bar, with an empty inline list and no consumer, is
C16_Witness ==
    /\ report.ran
    /\ dataset.effects = CatalogInline
    /\ Produced("e_foo") /\ ~Consumed("e_foo")
    /\ Produced("e_bar") /\ ~Consumed("e_bar")
    /\ Len(dataset.consumers) > 0
    /\ \E n \in 1..Len(report.warnings) :
          report.warnings[n].type = "GHOST_EFFECT" /\ report.warnings[n].effectId = "e_bar"
    /\ ~\E n \in 1..Len(report.warnings) :
          report.warnings[n].type = "GHOST_EFFECT" /\ report.warnings[n].effectId = "e_foo"

\* the effect ids of an option as an unordered set
EffectIdSet(o) == {effectsOf(o)[k] : k \in 1..Len(effectsOf(o))}

\* C17: a decision with at least 2 options gets a GHOST_DECISION error iff all
\* its options have the same set of effect ids; a decision with fewer than 2
\* options gets none.
C17_GhostDecisionIffSameSets ==
    report.ran =>
      \A i \in 1..Len(dataset.decisions) :
        LET d == dataset.decisions[i]
            flagged == \E n \in 1..Len(report.errors) :
                          report.errors[n] = [type |-> "GHOST_DECISION", decisionId |-> d.id]
        IN  IF Len(optionsOf(d)) >= 2
            THEN flagged <=> \A j, k \in 1..Len(optionsOf(d)) :
                                EffectIdSet(optionsOf(d)[j]) = EffectIdSet(optionsOf(d)[k])
            ELSE ~flagged

\* d1, whose options list the same ids in another order and with a repeat, is
\* flagged; d2, whose two options have two ids each and differ, is not
C17_Witness ==
    /\ report.ran
    /\ Len(dataset.decisions) = 2
    /\ Len(optionsOf(dataset.decisions[1])) = 2
    /\ effectsOf(optionsOf(dataset.decisions[1])[2]) = <<"e_bar", "e_foo", "e_foo">>
    /\ Len(optionsOf(dataset.decisions[2])) = 2
    /\ ErrorsOfType("GHOST_DECISION") = <<[type |-> "GHOST_DECISION", decisionId |-> "d1"]>>

\* C18: for every tape T in the ordering, later tape P and effect id E, the
\* number of BACKWARD_DEPENDENCY errors naming T, P and E is the number of pairs
\* of a consumer in T checking E and a decision in P producing E; no such error
\* names a producer tape that is not strictly after the consumer tape.
C18_OneBackwardErrorPerDependency ==
    report.ran =>
      /\ \A T \in TapeNames, P \in TapeNames, E \in MentionedIds :
           (TapePos(T) > 0 /\ TapePos(P) > TapePos(T)) =>
             Len(SelectSeq(report.errors,
                           LAMBDA e : e = [type |-> "BACKWARD_DEPENDENCY", consumerTape |-> T,
                                           producerTape |-> P, effectId |-> E]))
               = Cardinality({ pair \in (1..Len(dataset.consumers)) \X (1..Len(dataset.decisions)) :
                                 /\ dataset.consumers[pair[1]].tape = T
                                 /\ Checks(dataset.consumers[pair[1]], E)
                                 /\ dataset.decisions[pair[2]].tape = P
                                 /\ Produces(dataset.decisions[pair[2]], E) })
      /\ \A n \in 1..Len(report.errors) :
           report.errors[n].type = "BACKWARD_DEPENDENCY" =>
             /\ TapePos(report.errors[n].consumerTape) > 0
             /\ TapePos(report.errors[n].producerTape) > TapePos(report.errors[n].consumerTape)

\* the dataset has an option effect or a consumer check that is not in the catalog
HasBrokenReference == \E E \in MentionedIds \ CatalogIds : Produced(E) \/ Consumed(E)

\* the dataset has a decision with at least 2 options that all have the same set
HasGhostDecision ==
    \E i \in 1..Len(dataset.decisions) :
        LET d == dataset.decisions[i] IN
        /\ Len(optionsOf(d)) >= 2
        /\ \A j, k \in 1..Len(optionsOf(d)) :
              EffectIdSet(optionsOf(d)[j]) = EffectIdSet(optionsOf(d)[k])

\* the dataset has a consumer that checks an effect produced in a later tape
HasBackwardDependency ==
    \E i \in 1..Len(dataset.consumers), j \in 1..Len(dataset.decisions), E \in MentionedIds :
        /\ Checks(dataset.consumers[i], E) /\ Produces(dataset.decisions[j], E)
        /\ TapePos(dataset.consumers[i].tape) > 0
        /\ TapePos(dataset.decisions[j].tape) > TapePos(dataset.consumers[i].tape)

\* C19: the verdict is "fail" with exit status 1 iff the error list is
\* non-empty; otherwise the exit status is 0 and the verdict is "pass with
\* warnings" iff there are warnings and "clean pass" iff there are none; a
\* broken reference, a ghost decision or a backward dependency in the dataset
\* gives exit status 1.
C19_VerdictFollowsErrors ==
    report.ran =>
      /\ (report.exit = 1 /\ report.verdict = "fail") <=> report.errors # <<>>
      /\ report.errors = <<>> =>
            /\ report.exit = 0
            /\ report.verdict = "pass with warnings" <=> report.warnings # <<>>
            /\ report.verdict = "clean pass" <=> report.warnings = <<>>
      /\ report.exit \in {0, 1}
      /\ (HasBrokenReference \/ HasGhostDecision \/ HasBackwardDependency) => report.exit = 1

\* a dataset with three warnings and no error passed with exit status 0
C19_Witness ==
    /\ report.ran
    /\ report.errors = <<>> /\ Len(report.warnings) >= 3
    /\ report.exit = 0 /\ report.verdict = "pass with warnings"

C21_Merged(doc) ==
    [trust |-> IF "stats" \in DOMAIN doc /\ "trust" \in DOMAIN doc.stats
               THEN doc.stats.trust ELSE 0,
     guard |-> IF "stats" \in DOMAIN doc /\ "guard" \in DOMAIN doc.stats
               THEN doc.stats.guard ELSE 0,
     honesty |-> IF "stats" \in DOMAIN doc /\ "honesty" \in DOMAIN doc.stats
                 THEN doc.stats.honesty ELSE 0,
     vulnerability |-> IF "stats" \in DOMAIN doc /\ "vulnerability" \in DOMAIN doc.stats
                       THEN doc.stats.vulnerability ELSE 0,
     flags |-> IF "flags" \in DOMAIN doc THEN NewSet(doc.flags) ELSE <<>>,
     arcs |-> IF "arcs" \in DOMAIN doc THEN NewSet(doc.arcs) ELSE <<>>,
     memories |-> IF "memories" \in DOMAIN doc THEN doc.memories ELSE <<>>,
     history |-> IF "history" \in DOMAIN doc THEN doc.history ELSE <<>>]

\* C21: a document that lacks some of stats, flags, memories, arcs, history is
\* accepted by importState and by load, and afterwards every field the document
\* lacks is at its default and every field it has is the document's.
C21_PartialDocumentMergedWithDefaults ==
    [][ /\ (ret'.op = "importState" /\ ret'.json.valid /\ ret'.saved = "yes") =>
              /\ ret'.status = "true"
              /\ getStateOf(playerState', history') = C21_Merged(ret'.json.doc)
        /\ (ret'.op = "load" /\ ret'.status = "ok" /\ storage # <<>>) =>
              getStateOf(playerState', history') = C21_Merged(storage[1]) ]_vars

(***************************************************************************)
(* The GameEngine facade and the load-time ghost pass.                     *)
(***************************************************************************)
\* detectGhosts(): the entries of #effects, in order, that are neither stat nor
\* arc and have no array, or an empty one, in #consumers
detectGhosts(indexedEffects, index) ==
    LET ghosts == SelectSeq(indexedEffects,
                      LAMBDA effect :
                          /\ prop(effect, "type") # "stat"
                          /\ prop(effect, "type") # "arc"
                          /\ (effect.id \notin DOMAIN index \/ Len(index[effect.id]) = 0))
    IN  [i \in 1..Len(ghosts) |->
            [effectId |-> ghosts[i].id, type |-> prop(ghosts[i], "type")]]

\* the entries of #effects: none before load(), those of the dataset after it
indexedEffects == IF loaded THEN EngineData.effects ELSE <<>>

DetectGhosts ==
    /\ ret' = QueryRet("detectGhosts", <<>>, detectGhosts(indexedEffects, consumers))
    /\ UNCHANGED <<playerState, history, loaded, consumers, storage, now>>

\* GameEngine.initialize(): returns at once when already initialized, else
\* awaits DecisionEngine.load() and sets #initialized; a load that throws
\* leaves #initialized false
Initialize(fetchOk) ==
    IF initialized
    THEN /\ ret' = Ret("initialize", "-", "-", "ok", <<>>, <<>>, NoJson, "-")
         /\ UNCHANGED <<playerState, history, loaded, consumers, storage, now, initialized>>
    ELSE /\ Load(fetchOk)
         /\ initialized' = fetchOk

\* GameEngine.resetAll(): DecisionEngine.resetState() and #initialized = false
ResetAll ==
    /\ ResetState
    /\ initialized' = FALSE

\* The host page drives the engine through the facade: it initializes, plays,
\* resets everything and initializes again; tools call load() directly.
NextIndex ==
    \/ \E fetchOk \in BOOLEAN : Initialize(fetchOk) /\ UNCHANGED validatorVars
    \/ ResetAll /\ UNCHANGED validatorVars
    \/ Load(TRUE) /\ UNCHANGED <<gameVars, validatorVars>>
    \/ \E c \in ChoiceInputs :
          /\ now < MaxSessionClock
          /\ MakeChoice(c[1], c[2], TRUE) /\ UNCHANGED <<gameVars, validatorVars>>
    \/ DetectGhosts /\ UNCHANGED <<gameVars, validatorVars>>

SpecIndex == Init /\ [][NextIndex]_vars

\* C22: once the dataset is loaded, however often, consumersOf[E] holds exactly
\* the consumers that check E, each once, and producedBy[E] is the last
\* decision in catalog order that produces E.
C22_IndicesBuiltOnce ==
    loaded =>
      /\ \A E \in DOMAIN Effects :
           \A k \in 1..Len(Consumers) :
             Cardinality({i \in 1..Len(IF E \in DOMAIN consumers THEN consumers[E] ELSE <<>>) :
                             consumers[E][i].id = Consumers[k].id})
               = IF Checks(Consumers[k], E) THEN 1 ELSE 0
      /\ \A E \in DOMAIN producedBy :
           \E i \in 1..Len(DecisionOrder) :
             /\ producedBy[E] = DecisionOrder[i]
             /\ Produces(Decisions[DecisionOrder[i]], E)
             /\ \A j \in (i + 1)..Len(DecisionOrder) : ~Produces(Decisions[DecisionOrder[j]], E)
      /\ \A E \in DOMAIN Effects :
           (\E i \in 1..Len(DecisionOrder) : Produces(Decisions[DecisionOrder[i]], E))
             => E \in DOMAIN producedBy

\* C24: on every dataset, detectGhosts of an engine that loaded it returns an
\* effect id iff the validator emits a GHOST_EFFECT warning for that id.
C24_GhostPassesAgree ==
    report.ran =>
      LET ghosts == detectGhosts(dataset.effects, indexConsumers(EmptyMap, dataset)) IN
      \A E \in MentionedIds :
        (\E i \in 1..Len(ghosts) : ghosts[i].effectId = E)
          <=> (\E n \in 1..Len(report.warnings) :
                 report.warnings[n].type = "GHOST_EFFECT" /\ report.warnings[n].effectId = E)

(***************************************************************************)
(* Play of the decision whose stat effects name activeFlags, arcFlags and  *)
(* memories.                                                               *)
(***************************************************************************)
\* the pairs callers pass once d3 is offered
StatChoiceInputs ==
    ChoiceInputs \cup {<<"d3", "optFlags">>, <<"d3", "optArcs">>, <<"d3", "optMems">>}

\* activeFlags and arcFlags are Sets and memories is an array of records
WellFormed ==
    /\ playerState.activeFlags # NaNSet
    /\ playerState.arcFlags # NaNSet
    /\ \A i \in 1..Len(playerState.memories) : "id" \in DOMAIN playerState.memories[i]

\* The page plays until a choice leaves a property of the state that is no
\* longer a Set or an array.
NextStat ==
    \/ FirstLoad /\ Load(TRUE) /\ UNCHANGED <<gameVars, validatorVars>>
    \/ \E c \in StatChoiceInputs, w \in BOOLEAN :
          /\ WellFormed /\ now < MaxPersistClock
          /\ MakeChoice(c[1], c[2], w) /\ UNCHANGED <<gameVars, validatorVars>>
    \/ WellFormed /\ ResetState /\ UNCHANGED <<gameVars, validatorVars>>

SpecStat == Init /\ [][NextStat]_vars

\* the stats a list of effect ids names
C23_Named(effectIds) == {Effects[effectIds[i]].stat : i \in 1..Len(effectIds)}

\* C23: a choice whose effects are all stat effects changes at most the stats
\* among trust, guard, honesty and vulnerability that they name, and leaves the
\* active flags, the arc flags and the memories as they were.
C23_StatEffectFrame ==
    [][ ( /\ KnownChoiceStep
          /\ \A i \in 1..Len(StepOption.effects) :
                /\ StepOption.effects[i] \in DOMAIN Effects
                /\ Effects[StepOption.effects[i]].type = "stat" )
        => /\ \A st \in StatNames \ C23_Named(StepOption.effects) :
                 playerState'[st] = playerState[st]
           /\ playerState'.activeFlags = playerState.activeFlags
           /\ playerState'.arcFlags = playerState.arcFlags
           /\ playerState'.memories = playerState.memories ]_vars

====
